---- MODULE Spec2Model ----
(***************************************************************************)
(* plox: the command-line driver (plox/main.py) and the Lisp-style pretty  *)
(* printer (plox/pprinter.py).                                             *)
(*                                                                         *)
(* Text is a sequence of atoms: " " and "\n" are the space and the line    *)
(* break, every other atom is a run of characters holding neither.         *)
(***************************************************************************)
EXTENDS Integers, Sequences, FiniteSets, TLC

VARIABLES
    \* ---- LispPrinter (pprinter.py) ----
    indent,      \* LispPrinter.indent
    stack,       \* the visit methods being executed, innermost last
    output,      \* what print_program returned
    pstate,      \* "idle" | "visiting" | "done"
    \* ---- driver (main.py) ----
    pc,          \* position of the process in main.py
    nargs,       \* len(sys.argv) - 1
    mode,        \* "none" | "usage" | "file" | "repl"
    source,      \* the source text being run
    result,      \* run(): parser.parse()'s result
    had_error,           \* Globals.had_error
    had_runtime_error,   \* Globals.had_runtime_error
    globals,     \* the global environment of the Interpreter run() holds
    stdout,      \* standard output
    exit_code,   \* the exit status, -1 while running
    history,     \* the REPL lines run so far with their outcomes
    phases,      \* the calls run() made for the current source
    printed,     \* the text written by the program's own print statements
    session      \* the global environment left by the last executed entry

pvars == <<indent, stack, output, pstate>>
dvars == <<pc, nargs, mode, source, result, had_error, had_runtime_error,
           globals, stdout, exit_code, history, phases, printed, session>>
vars == <<indent, stack, output, pstate, pc, nargs, mode, source, result,
          had_error, had_runtime_error, globals, stdout, exit_code, history,
          phases, printed, session>>

(***************************************************************************)
(* Bounds                                                                  *)
(***************************************************************************)
MaxDepth == 2
MaxEntries == 3
MaxArgs == 2

(***************************************************************************)
(* Tokens and the AST (plox/tokens.py, plox/ast.py)                        *)
(***************************************************************************)
Token(kind, lexeme) == [kind |-> kind, lexeme |-> lexeme, literal |-> "None", line |-> 1]
NoToken == Token("", "")

Value(type, b, n, s) == [type |-> type, b |-> b, n |-> n, s |-> s]
Nil == Value("nil", FALSE, 0, "")
Bool(b) == Value("bool", b, 0, "")
Number(n) == Value("number", FALSE, n, "")
String(s) == Value("string", FALSE, 0, s)

Node(kind, tok, tok2, value, params, kids) ==
    [kind |-> kind, tok |-> tok, tok2 |-> tok2, value |-> value,
     params |-> params, kids |-> kids]

Ident(x) == Token("IDENTIFIER", x)

Literal(v) == Node("Literal", NoToken, NoToken, v, <<>>, <<>>)
Grouping(e) == Node("Grouping", NoToken, NoToken, Nil, <<>>, <<e>>)
Unary(op, right) == Node("Unary", op, NoToken, Nil, <<>>, <<right>>)
Binary(op, left, right) == Node("Binary", op, NoToken, Nil, <<>>, <<left, right>>)
Logical(op, left, right) == Node("Logical", op, NoToken, Nil, <<>>, <<left, right>>)
Variable(x) == Node("Variable", Ident(x), NoToken, Nil, <<>>, <<>>)
Assign(x, value) == Node("Assign", Ident(x), NoToken, Nil, <<>>, <<value>>)
Call(callee, arguments) == Node("Call", Token("RIGHT_PAREN", ")"), NoToken, Nil, <<>>, <<callee>> \o arguments)
Get(object, x) == Node("Get", Ident(x), NoToken, Nil, <<>>, <<object>>)
Set(object, x, value) == Node("Set", Ident(x), NoToken, Nil, <<>>, <<object, value>>)
This == Node("This", Token("THIS", "this"), NoToken, Nil, <<>>, <<>>)
Super(m) == Node("Super", Token("SUPER", "super"), Ident(m), Nil, <<>>, <<>>)

Expression(e) == Node("Expression", NoToken, NoToken, Nil, <<>>, <<e>>)
PrintStmt(e) == Node("Print", NoToken, NoToken, Nil, <<>>, <<e>>)
\* initializer, value, else_branch and superclass are optional: absent is a
\* shorter kids (or NoToken for the superclass name).
Var(x, initializer) == Node("Var", Ident(x), NoToken, Nil, <<>>, initializer)
Block(statements) == Node("Block", NoToken, NoToken, Nil, <<>>, statements)
If(condition, then_branch, else_branch) ==
    Node("If", NoToken, NoToken, Nil, <<>>, <<condition, then_branch>> \o else_branch)
While(condition, body) == Node("While", NoToken, NoToken, Nil, <<>>, <<condition, body>>)
Function(f, params, body) == Node("Function", Ident(f), NoToken, Nil, params, body)
Return(value) == Node("Return", Token("RETURN", "return"), NoToken, Nil, <<>>, value)
Class(c, superclass, methods) == Node("Class", Ident(c), superclass, Nil, <<>>, methods)

Program(statements) == Node("Program", NoToken, NoToken, Nil, <<>>, statements)

MINUS == Token("MINUS", "-")
BANG == Token("BANG", "!")
PLUS == Token("PLUS", "+")
STAR == Token("STAR", "*")
OR == Token("OR", "or")

(***************************************************************************)
(* Text                                                                    *)
(***************************************************************************)
SP == " "
NL == "\n"

Spaces(n) == [i \in 1..n |-> SP]

\* str(token): the token object formatted as a whole, every field of the
\* record {kind, lexeme, literal, line} in it.
Token_str(t) ==
    <<"Token(kind='" \o t.kind \o "',", SP, "lexeme='" \o t.lexeme \o "',", SP,
      "literal=" \o t.literal \o ",", SP, "line=" \o ToString(t.line) \o ")">>

\* str(float) of a number literal
float_str(n) == ToString(n) \o ".0"

(***************************************************************************)
(* LispPrinter: each visit method as the sequence of its steps             *)
(***************************************************************************)
Emit(t) == [op |-> "emit", text |-> t, k |-> 0]
IndentInc == [op |-> "inc", text |-> <<>>, k |-> 0]
IndentDec == [op |-> "dec", text |-> <<>>, k |-> 0]
\* kids[k].accept(self), its text appended as it is
Accept(k) == [op |-> "accept", text |-> <<>>, k |-> k]
\* self.print_indent(kids[k].accept(self))
AcceptIndented(k) == [op |-> "accept_indented", text |-> <<>>, k |-> k]

\* "\n".join([self.print_indent(kids[i].accept(self)) for i in lo..hi])
JoinIndented(lo, hi) ==
    [j \in 1..(IF hi < lo THEN 0 ELSE 2 * (hi - lo) + 1) |->
        IF j % 2 = 1 THEN AcceptIndented(lo + (j - 1) \div 2) ELSE Emit(<<NL>>)]

\* " ".join([arg.lexeme for arg in params])
JoinLexemes(params) ==
    [j \in 1..(IF Len(params) = 0 THEN 0 ELSE 2 * Len(params) - 1) |->
        IF j % 2 = 1 THEN params[(j + 1) \div 2].lexeme ELSE SP]

print_program(program) ==
    [j \in 1..(IF Len(program.kids) = 0 THEN 0 ELSE 2 * Len(program.kids) - 1) |->
        IF j % 2 = 1 THEN Accept((j + 1) \div 2) ELSE Emit(<<NL>>)]

print_indent(s, ind) == Spaces(ind) \o s

visit_block(block) ==
    <<Emit(<<"(", "block">>)>>
    \o (IF Len(block.kids) > 0
        THEN <<IndentInc, Emit(<<NL>>)>> \o JoinIndented(1, Len(block.kids)) \o <<IndentDec>>
        ELSE <<>>)
    \o <<Emit(<<")">>)>>

visit_assign(expr) ==
    <<Emit(<<"(", "assign", SP, expr.tok.lexeme, SP>>), Accept(1), Emit(<<")">>)>>

visit_binary(expr) ==
    <<Emit(<<"(", expr.tok.lexeme, SP>>), Accept(1), Emit(<<SP>>), Accept(2), Emit(<<")">>)>>

visit_grouping(expr) ==
    <<Emit(<<"(", "grouping", SP>>), Accept(1), Emit(<<")">>)>>

visit_literal(expr) ==
    <<Emit(CASE expr.value.type = "nil" -> <<"nil">>
             [] expr.value.type = "bool" -> IF expr.value.b THEN <<"true">> ELSE <<"false">>
             [] expr.value.type = "string" -> <<"\"", expr.value.s, "\"">>
             [] OTHER -> <<float_str(expr.value.n)>>)>>

visit_unary(expr) ==
    <<Emit(<<"(">> \o Token_str(expr.tok) \o <<SP>>), Accept(1), Emit(<<")">>)>>

visit_variable(expr) == <<Emit(<<expr.tok.lexeme>>)>>

visit_print(expr) ==
    <<Emit(<<"(", "print", SP>>), Accept(1), Emit(<<")">>)>>

visit_call(expr) ==
    <<Emit(<<"(", "call", SP>>), Accept(1)>>
    \o (IF Len(expr.kids) - 1 > 0
        THEN <<IndentInc, Emit(<<NL>>)>> \o JoinIndented(2, Len(expr.kids)) \o <<IndentDec>>
        ELSE <<>>)
    \o <<Emit(<<")">>)>>

visit_expression(stmt) == <<Accept(1)>>

visit_function(stmt) ==
    <<Emit(<<"(", "func", SP, stmt.tok.lexeme, SP, "(">> \o JoinLexemes(stmt.params) \o <<")">>),
      IndentInc, Emit(<<NL>>)>>
    \o JoinIndented(1, Len(stmt.kids))
    \o <<IndentDec, Emit(<<")">>)>>

\* visit_if with the indent restored only on the else path
visit_if_unbalanced(stmt) ==
    <<Emit(<<"(", "if", SP>>), Accept(1),
      IndentInc, Emit(<<NL>>), AcceptIndented(2)>>
    \o (IF Len(stmt.kids) = 3 THEN <<IndentDec, Emit(<<NL>>), AcceptIndented(3)>> ELSE <<>>)
    \o <<Emit(<<")">>)>>

visit_if(stmt) ==
    <<Emit(<<"(", "if", SP>>), Accept(1),
      IndentInc, Emit(<<NL>>), AcceptIndented(2), IndentDec>>
    \o (IF Len(stmt.kids) = 3 THEN <<Emit(<<NL>>), AcceptIndented(3)>> ELSE <<>>)
    \o <<Emit(<<")">>)>>

visit_while(stmt) ==
    <<Emit(<<"(", "while", SP>>), Accept(1),
      IndentInc, Emit(<<NL>>), AcceptIndented(2), IndentDec, Emit(<<")">>)>>

visit_return(stmt) ==
    IF Len(stmt.kids) = 1
    THEN <<Emit(<<"(", "return", SP>>), Accept(1), Emit(<<")">>)>>
    ELSE <<Emit(<<"(", "return", ")">>)>>

\* left and right are visited in this order before the text is put together
visit_logical(expr) ==
    <<Emit(<<"(", expr.tok.lexeme, SP>>), Accept(1), Emit(<<SP>>), Accept(2), Emit(<<")">>)>>

visit_var(stmt) ==
    IF Len(stmt.kids) = 1
    THEN <<Emit(<<"(", "var", SP, stmt.tok.lexeme, SP>>), Accept(1), Emit(<<")">>)>>
    ELSE <<Emit(<<"(", "var", SP, stmt.tok.lexeme, ")">>)>>

visit_class(stmt) ==
    <<Emit(<<"(", "class", SP, stmt.tok.lexeme>>)>>
    \o (IF stmt.tok2 # NoToken
        THEN <<Emit(<<SP, "(", "<", SP, stmt.tok2.lexeme, ")">>)>>
        ELSE <<>>)
    \o (IF Len(stmt.kids) > 0
        THEN <<IndentInc, Emit(<<NL>>)>> \o JoinIndented(1, Len(stmt.kids)) \o <<IndentDec>>
        ELSE <<>>)
    \o <<Emit(<<")">>)>>

visit_get(expr) ==
    <<Emit(<<"(", "get", SP>>), Accept(1), Emit(<<SP, expr.tok.lexeme, ")">>)>>

visit_set(expr) ==
    <<Emit(<<"(", "set", SP>>), Accept(1), Emit(<<SP, expr.tok.lexeme, SP>>), Accept(2), Emit(<<")">>)>>

visit_this(expr) == <<Emit(<<"this">>)>>

visit_super(expr) ==
    <<Emit(<<"(", expr.tok.lexeme, SP, expr.tok2.lexeme, ")">>)>>

\* node.accept(self): the visitor dispatch of plox/ast.py
accept(node) ==
    CASE node.kind = "Program" -> print_program(node)
      [] node.kind = "Block" -> visit_block(node)
      [] node.kind = "Assign" -> visit_assign(node)
      [] node.kind = "Binary" -> visit_binary(node)
      [] node.kind = "Grouping" -> visit_grouping(node)
      [] node.kind = "Literal" -> visit_literal(node)
      [] node.kind = "Unary" -> visit_unary(node)
      [] node.kind = "Variable" -> visit_variable(node)
      [] node.kind = "Print" -> visit_print(node)
      [] node.kind = "Call" -> visit_call(node)
      [] node.kind = "Expression" -> visit_expression(node)
      [] node.kind = "Function" -> visit_function(node)
      [] node.kind = "If" -> visit_if(node)
      [] node.kind = "While" -> visit_while(node)
      [] node.kind = "Return" -> visit_return(node)
      [] node.kind = "Logical" -> visit_logical(node)
      [] node.kind = "Var" -> visit_var(node)
      [] node.kind = "Class" -> visit_class(node)
      [] node.kind = "Get" -> visit_get(node)
      [] node.kind = "Set" -> visit_set(node)
      [] node.kind = "This" -> visit_this(node)
      [] node.kind = "Super" -> visit_super(node)

(***************************************************************************)
(* The printer run to completion: LispPrinter().print_program(program)     *)
(***************************************************************************)
RECURSIVE visit(_, _)
RECURSIVE run_steps(_, _, _, _, _)

\* the steps of one visit method from step i on, with self.indent = ind and
\* the text s built so far; yields the text and self.indent at the return
run_steps(node, steps, i, ind, s) ==
    IF i > Len(steps) THEN [s |-> s, indent |-> ind]
    ELSE LET step == steps[i] IN
         CASE step.op = "emit" -> run_steps(node, steps, i + 1, ind, s \o step.text)
           [] step.op = "inc" -> run_steps(node, steps, i + 1, ind + 4, s)
           [] step.op = "dec" -> run_steps(node, steps, i + 1, ind - 4, s)
           [] step.op = "accept" ->
                LET r == visit(node.kids[step.k], ind)
                IN  run_steps(node, steps, i + 1, r.indent, s \o r.s)
           [] step.op = "accept_indented" ->
                LET r == visit(node.kids[step.k], ind)
                IN  run_steps(node, steps, i + 1, r.indent, s \o print_indent(r.s, r.indent))

visit(node, ind) == run_steps(node, accept(node), 1, ind, <<>>)

\* LispPrinter().print_program(result): a fresh printer has indent = 0
LispPrinter_print_program(statements) == visit(Program(statements), 0).s

(***************************************************************************)
(* The printer step by step                                                *)
(***************************************************************************)
\* The last line of text t, and the number of spaces a line starts with.
RECURSIVE LastLine(_)
LastLine(t) ==
    IF t = <<>> \/ t[Len(t)] = NL THEN <<>>
    ELSE Append(LastLine(SubSeq(t, 1, Len(t) - 1)), t[Len(t)])

RECURSIVE LeadingSpaces(_)
LeadingSpaces(t) ==
    IF t = <<>> \/ t[1] # SP THEN 0 ELSE 1 + LeadingSpaces(Tail(t))

HasNL(t) == \E i \in 1..Len(t) : t[i] = NL

\* A visit method in execution: the node, the next step, the text built so
\* far, whether the caller passes the result to print_indent; indent0 is
\* self.indent at the call, open the indentation of the output line on
\* which the node's form opens.
Frame(node, indented, ind0, open) ==
    [node |-> node, pc |-> 1, s |-> <<>>, indented |-> indented,
     indent0 |-> ind0, open |-> open]

Top == stack[Len(stack)]
Steps(f) == accept(f.node)
Returning(f) == f.pc > Len(Steps(f))
CurrentStep == Steps(Top)[Top.pc]
Stepping == pstate = "visiting" /\ stack # <<>> /\ ~Returning(Top)

SetTop(f) == [stack EXCEPT ![Len(stack)] = f]

\* s += "...": literal text and lexemes
EmitText ==
    /\ Stepping
    /\ CurrentStep.op = "emit"
    /\ stack' = SetTop([Top EXCEPT !.s = @ \o CurrentStep.text, !.pc = @ + 1])
    /\ UNCHANGED <<indent, output, pstate>>

\* self.indent += 4
IncreaseIndent ==
    /\ Stepping
    /\ CurrentStep.op = "inc"
    /\ indent' = indent + 4
    /\ stack' = SetTop([Top EXCEPT !.pc = @ + 1])
    /\ UNCHANGED <<output, pstate>>

\* self.indent -= 4
DecreaseIndent ==
    /\ Stepping
    /\ CurrentStep.op = "dec"
    /\ indent' = indent - 4
    /\ stack' = SetTop([Top EXCEPT !.pc = @ + 1])
    /\ UNCHANGED <<output, pstate>>

\* child.accept(self) is called
CallAccept ==
    /\ Stepping
    /\ CurrentStep.op \in {"accept", "accept_indented"}
    /\ LET child == Top.node.kids[CurrentStep.k]
           ind == CurrentStep.op = "accept_indented"
           open == IF ind THEN indent
                   ELSE IF HasNL(Top.s) THEN LeadingSpaces(LastLine(Top.s))
                   ELSE Top.open
       IN  stack' = Append(stack, Frame(child, ind, indent, open))
    /\ UNCHANGED <<indent, output, pstate>>

\* a visit method returns its text to the visit method that called accept,
\* which passes it through print_indent where the code does
ReturnText ==
    /\ pstate = "visiting"
    /\ Len(stack) > 1
    /\ Returning(Top)
    /\ LET caller == stack[Len(stack) - 1]
           text == IF Top.indented THEN print_indent(Top.s, indent) ELSE Top.s
       IN  stack' = [SubSeq(stack, 1, Len(stack) - 1) EXCEPT
                        ![Len(stack) - 1] = [caller EXCEPT !.s = @ \o text, !.pc = @ + 1]]
    /\ UNCHANGED <<indent, output, pstate>>

\* print_program returns the joined text
ReturnProgram ==
    /\ pstate = "visiting"
    /\ Len(stack) = 1
    /\ Returning(Top)
    /\ output' = Top.s
    /\ pstate' = "done"
    /\ UNCHANGED <<indent, stack>>

(***************************************************************************)
(* The programs printed: every node kind, nested to MaxDepth               *)
(***************************************************************************)
One == Literal(Number(1))
CallF == Call(Variable("f"), <<One>>)
PrintX == PrintStmt(Variable("x"))

BaseExprs == {One, Variable("x")}

ExprForms(e) ==
    { Grouping(e), Unary(MINUS, e), Unary(BANG, e),
      Binary(PLUS, e, One), Binary(STAR, CallF, e), Logical(OR, Variable("y"), e),
      Assign("x", e), Call(e, <<>>), Call(Variable("f"), <<e>>),
      Call(Variable("g"), <<Literal(String("hi")), e>>),
      Get(e, "p"), Set(e, "p", Literal(Nil)), Set(This, "p", e) }

RECURSIVE Exprs(_)
Exprs(d) ==
    IF d = 0 THEN BaseExprs
    ELSE Exprs(d - 1) \cup UNION { ExprForms(e) : e \in Exprs(d - 1) }

BaseStmts ==
    { Var("x", <<>>), Return(<<>>), Block(<<>>), Function("f", <<Ident("a"), Ident("b")>>, <<>>),
      Class("A", NoToken, <<>>), Expression(This), Expression(Super("m")),
      PrintStmt(Literal(Bool(TRUE))), PrintStmt(Literal(Bool(FALSE))) }

StmtOfExpr(e) ==
    { Expression(e), PrintStmt(e), Var("x", <<e>>), Return(<<e>>) }

StmtForms(s) ==
    { Block(<<s>>), Block(<<PrintX, s>>),
      If(Variable("c"), s, <<>>), If(CallF, PrintX, <<s>>),
      While(Variable("c"), s),
      Function("f", <<Ident("a")>>, <<s>>),
      Class("B", Ident("A"), <<Function("m", <<>>, <<s>>)>>) }

RECURSIVE Stmts(_)
Stmts(d) ==
    IF d = 0 THEN BaseStmts
    ELSE Stmts(d - 1)
         \cup UNION { StmtForms(s) : s \in Stmts(d - 1) }
         \cup UNION { StmtOfExpr(e) : e \in Exprs(d - 1) }

\* f(1) * g("hi", x);  a call that opens on the last line of another call
TwoCalls ==
    Expression(Binary(STAR, CallF, Call(Variable("g"), <<Literal(String("hi")), Variable("x")>>)))

Programs ==
    { <<s>> : s \in Stmts(MaxDepth) }
    \cup { <<>>, <<PrintX, Block(<<PrintX>>)>>, <<TwoCalls>>, <<Block(<<TwoCalls>>)>> }

(***************************************************************************)
(* The driver's variables while only the printer runs, and the reverse     *)
(***************************************************************************)
DriverIdle ==
    /\ pc = "idle" /\ nargs = 0 /\ mode = "none" /\ source = "" /\ result = <<>>
    /\ had_error = FALSE /\ had_runtime_error = FALSE
    /\ globals = <<>> /\ stdout = <<>> /\ exit_code = -1
    /\ history = <<>> /\ phases = <<>> /\ printed = <<>> /\ session = <<>>

\* LispPrinter().print_program(program): __init__ sets indent = 0
InitPrinter ==
    /\ indent = 0
    /\ \E program \in Programs : stack = <<Frame(Program(program), FALSE, 0, 0)>>
    /\ output = <<>>
    /\ pstate = "visiting"
    /\ DriverIdle

NextPrinter ==
    \/ (EmitText /\ UNCHANGED dvars)
    \/ (IncreaseIndent /\ UNCHANGED dvars)
    \/ (DecreaseIndent /\ UNCHANGED dvars)
    \/ (CallAccept /\ UNCHANGED dvars)
    \/ (ReturnText /\ UNCHANGED dvars)
    \/ (ReturnProgram /\ UNCHANGED dvars)

SpecPrinter == InitPrinter /\ [][NextPrinter]_vars

(***************************************************************************)
(* The collaborators of main.py: scanner and parser, resolver, interpreter *)
(* and the error sink, as far as run() depends on them                     *)
(***************************************************************************)
Parsed(statements) == [none |-> FALSE, statements |-> statements]
NoResult == [none |-> TRUE, statements |-> <<>>]

Two == Literal(Number(2))
Three == Literal(Number(3))

\* Source texts with what Scanner(source).scan_tokens() and
\* Parser(tokens).parse() make of them: whether an error is reported to the
\* error sink, and the value parse() returns.
Sources ==
    { [text |-> "print 1 + 2 * 3;", error |-> FALSE,
       result |-> Parsed(<<PrintStmt(Binary(PLUS, One, Binary(STAR, Two, Three)))>>)],
      [text |-> "var a = 1;", error |-> FALSE,
       result |-> Parsed(<<Var("a", <<One>>)>>)],
      [text |-> "print a;", error |-> FALSE,
       result |-> Parsed(<<PrintStmt(Variable("a"))>>)],
      [text |-> "var a = a + 1; print a;", error |-> FALSE,
       result |-> Parsed(<<Var("a", <<Binary(PLUS, Variable("a"), One)>>),
                           PrintStmt(Variable("a"))>>)],
      [text |-> "print -\"s\";", error |-> FALSE,
       result |-> Parsed(<<PrintStmt(Unary(MINUS, Literal(String("s"))))>>)],
      [text |-> "fun f() {}", error |-> FALSE,
       result |-> Parsed(<<Function("f", <<>>, <<>>)>>)],
      [text |-> "class A {}", error |-> FALSE,
       result |-> Parsed(<<Class("A", NoToken, <<>>)>>)],
      [text |-> "\n", error |-> FALSE, result |-> Parsed(<<>>)],
      [text |-> "return 1;", error |-> FALSE,
       result |-> Parsed(<<Return(<<One>>)>>)],
      [text |-> "print ;", error |-> TRUE, result |-> NoResult],
      [text |-> "print 1; @", error |-> TRUE,
       result |-> Parsed(<<PrintStmt(One)>>)] }

Texts == { src.text : src \in Sources }
Scanned(text) == CHOOSE src \in Sources : src.text = text

\* Scanner/Parser: whether the source makes them report an error
Parser_reports(text) == Scanned(text).error
\* Parser(tokens).parse()
Parser_parse(text) == Scanned(text).result

\* Resolver.resolve_list: whether it reports an error. Of its rules the
\* sources above can break one: a return outside any function.
Resolver_reports(statements) ==
    \E i \in 1..Len(statements) : statements[i].kind = "Return"

\* Interpreter(): the global environment holds the native clock alone
Names == {"clock", "a", "f", "A"}
Unbound == Value("unbound", FALSE, 0, "")
Interpreter == [x \in Names |-> IF x = "clock" THEN Value("native", FALSE, 0, "clock") ELSE Unbound]

RuntimeError == [ok |-> FALSE, v |-> Nil]
Ok(v) == [ok |-> TRUE, v |-> v]
is_truthy(v) == ~(v.type = "nil" \/ (v.type = "bool" /\ ~v.b))

RECURSIVE evaluate(_, _)
evaluate(expr, env) ==
    CASE expr.kind = "Literal" -> Ok(expr.value)
      [] expr.kind = "Grouping" -> evaluate(expr.kids[1], env)
      [] expr.kind = "Variable" ->
            IF expr.tok.lexeme \in Names /\ env[expr.tok.lexeme] # Unbound
            THEN Ok(env[expr.tok.lexeme]) ELSE RuntimeError
      [] expr.kind = "Unary" ->
            LET r == evaluate(expr.kids[1], env) IN
            IF ~r.ok THEN r
            ELSE IF expr.tok = BANG THEN Ok(Bool(~is_truthy(r.v)))
            ELSE IF r.v.type = "number" THEN Ok(Number(0 - r.v.n))
            ELSE RuntimeError
      [] expr.kind = "Binary" ->
            LET l == evaluate(expr.kids[1], env) IN
            IF ~l.ok THEN l
            ELSE LET r == evaluate(expr.kids[2], env) IN
                 IF ~r.ok THEN r
                 ELSE IF l.v.type = "number" /\ r.v.type = "number"
                 THEN Ok(Number(IF expr.tok = PLUS THEN l.v.n + r.v.n ELSE l.v.n * r.v.n))
                 ELSE IF expr.tok = PLUS /\ l.v.type = "string" /\ r.v.type = "string"
                 THEN Ok(String(l.v.s \o r.v.s))
                 ELSE RuntimeError
      [] OTHER -> RuntimeError

\* the canonical text of a value: integral numbers without ".0"
stringify(v) ==
    CASE v.type = "nil" -> "nil"
      [] v.type = "bool" -> IF v.b THEN "true" ELSE "false"
      [] v.type = "number" -> ToString(v.n)
      [] v.type = "string" -> v.s
      [] v.type = "function" -> "<fn " \o v.s \o ">"
      [] v.type = "native" -> "<native fn>"
      [] OTHER -> v.s

\* Interpreter.visit_statements: the statements in order, stopped by the
\* first runtime error, which is reported to the error sink. Yields the
\* global environment, the text printed and whether a runtime error was raised.
RECURSIVE visit_statements(_, _, _, _)
visit_statements(statements, i, env, out) ==
    IF i > Len(statements) THEN [env |-> env, out |-> out, error |-> FALSE]
    ELSE LET stmt == statements[i]
             r == IF stmt.kids = <<>> THEN Ok(Nil) ELSE evaluate(stmt.kids[1], env)
         IN  CASE stmt.kind \in {"Print", "Expression"} ->
                    IF ~r.ok THEN [env |-> env, out |-> out, error |-> TRUE]
                    ELSE visit_statements(statements, i + 1, env,
                            IF stmt.kind = "Print" THEN out \o <<stringify(r.v), NL>> ELSE out)
               [] stmt.kind = "Var" ->
                    IF ~r.ok THEN [env |-> env, out |-> out, error |-> TRUE]
                    ELSE visit_statements(statements, i + 1,
                            [env EXCEPT ![stmt.tok.lexeme] = r.v], out)
               [] stmt.kind = "Function" ->
                    visit_statements(statements, i + 1,
                        [env EXCEPT ![stmt.tok.lexeme] = Value("function", FALSE, 0, stmt.tok.lexeme)], out)
               [] stmt.kind = "Class" ->
                    visit_statements(statements, i + 1,
                        [env EXCEPT ![stmt.tok.lexeme] = Value("class", FALSE, 0, stmt.tok.lexeme)], out)
               [] OTHER -> [env |-> env, out |-> out, error |-> TRUE]

(***************************************************************************)
(* main.py                                                                 *)
(***************************************************************************)
EOF == ""
Usage == <<"Usage:", SP, "plox", SP, "[script]", NL>>
Prompt == <<">", SP>>

PrinterIdle == indent = 0 /\ stack = <<>> /\ output = <<>> /\ pstate = "idle"

InPhases(p) == \E i \in 1..Len(phases) : phases[i] = p

Init ==
    /\ pc = "main"
    /\ nargs \in 0..MaxArgs
    /\ mode = "none"
    /\ source = EOF
    /\ result = NoResult
    /\ had_error = FALSE
    /\ had_runtime_error = FALSE
    /\ globals = Interpreter
    /\ stdout = <<>>
    /\ exit_code = -1
    /\ history = <<>>
    /\ phases = <<>>
    /\ printed = <<>>
    /\ session = Interpreter
    /\ PrinterIdle

\* if __name__ == "__main__": the choice by len(sys.argv); for one argument
\* run_file reads the script (any of the source texts) and calls run
main ==
    /\ pc = "main"
    /\ IF nargs + 1 > 2
       THEN /\ stdout' = stdout \o Usage
            /\ exit_code' = 64
            /\ mode' = "usage"
            /\ pc' = "exited"
            /\ UNCHANGED source
       ELSE IF nargs + 1 = 2
       THEN /\ \E text \in Texts : source' = text
            /\ mode' = "file"
            /\ pc' = "run"
            /\ UNCHANGED <<stdout, exit_code>>
       ELSE /\ mode' = "repl"
            /\ pc' = "prompt"
            /\ UNCHANGED <<stdout, exit_code, source>>
    /\ UNCHANGED <<nargs, result, had_error, had_runtime_error, globals,
                   history, phases, printed, session>>

\* run, lines 14-20: scan, parse, and return on an error
run_parse ==
    /\ pc = "run"
    /\ result' = Parser_parse(source)
    /\ had_error' = (had_error \/ Parser_reports(source))
    /\ phases' = <<"scan", "parse">>
                 \o (IF Parser_reports(source) THEN <<"static_error">> ELSE <<>>)
    /\ pc' = IF result'.none \/ had_error' THEN "returned" ELSE "print_ast"
    /\ UNCHANGED <<nargs, mode, source, had_runtime_error, globals, stdout,
                   exit_code, history, printed, session>>

\* run, line 22: print(LispPrinter().print_program(result))
run_print_ast ==
    /\ pc = "print_ast"
    /\ stdout' = stdout \o LispPrinter_print_program(result.statements) \o <<NL>>
    /\ phases' = Append(phases, "print_ast")
    /\ pc' = "resolve"
    /\ UNCHANGED <<nargs, mode, source, result, had_error, had_runtime_error,
                   globals, exit_code, history, printed, session>>

\* run without the check of had_error after the resolver
run_resolve_unchecked ==
    /\ pc = "resolve"
    /\ globals' = Interpreter
    /\ had_error' = (had_error \/ Resolver_reports(result.statements))
    /\ phases' = Append(phases, "resolve")
                 \o (IF Resolver_reports(result.statements) THEN <<"static_error">> ELSE <<>>)
    /\ pc' = "execute"
    /\ UNCHANGED <<nargs, mode, source, result, had_runtime_error, stdout,
                   exit_code, history, printed, session>>

\* run, lines 24-29: a new Interpreter, the resolver, and return on an error
run_resolve ==
    /\ pc = "resolve"
    /\ globals' = Interpreter
    /\ had_error' = (had_error \/ Resolver_reports(result.statements))
    /\ phases' = Append(phases, "resolve")
                 \o (IF Resolver_reports(result.statements) THEN <<"static_error">> ELSE <<>>)
    /\ pc' = IF had_error' THEN "returned" ELSE "execute"
    /\ UNCHANGED <<nargs, mode, source, result, had_runtime_error, stdout,
                   exit_code, history, printed, session>>

\* run, line 31: interpreter.visit_statements(result)
run_execute ==
    /\ pc = "execute"
    /\ LET r == visit_statements(result.statements, 1, globals, <<>>) IN
        /\ globals' = r.env
        /\ session' = r.env
        /\ stdout' = stdout \o r.out
        /\ printed' = printed \o r.out
        /\ had_runtime_error' = (had_runtime_error \/ r.error)
        /\ phases' = Append(phases, "execute")
                     \o (IF r.error THEN <<"runtime_error">> ELSE <<>>)
    /\ pc' = "returned"
    /\ UNCHANGED <<nargs, mode, source, result, had_error, exit_code, history>>

\* run_file testing had_runtime_error alone
run_file_exit_runtime_only ==
    /\ pc = "returned"
    /\ mode = "file"
    /\ exit_code' = IF had_runtime_error THEN 70 ELSE 0
    /\ pc' = "exited"
    /\ UNCHANGED <<nargs, mode, source, result, had_error, had_runtime_error,
                   globals, stdout, history, phases, printed, session>>

\* run_file, lines 36-39, and the end of the process
run_file_exit ==
    /\ pc = "returned"
    /\ mode = "file"
    /\ exit_code' = IF had_error THEN 65
                    ELSE IF had_runtime_error THEN 70
                    ELSE 0
    /\ pc' = "exited"
    /\ UNCHANGED <<nargs, mode, source, result, had_error, had_runtime_error,
                   globals, stdout, history, phases, printed, session>>

\* run_prompt ending the loop on a blank line too (len(inp.strip()) == 0)
run_prompt_read_blank_ends ==
    /\ pc = "prompt"
    /\ mode = "repl"
    /\ stdout' = stdout \o Prompt
    /\ \E inp \in {EOF} \cup (IF Len(history) < MaxEntries THEN Texts ELSE {}) :
        /\ source' = inp
        /\ IF inp \in {EOF, "\n"}
           THEN pc' = "exited" /\ exit_code' = 0
           ELSE pc' = "run" /\ UNCHANGED exit_code
    /\ UNCHANGED <<nargs, mode, result, had_error, had_runtime_error, globals,
                   history, phases, printed, session>>

\* run_prompt, lines 44-48: the prompt, the line read; an empty read is the
\* end of input and ends the loop and the process, any line is run
run_prompt_read ==
    /\ pc = "prompt"
    /\ mode = "repl"
    /\ stdout' = stdout \o Prompt
    /\ \E inp \in {EOF} \cup (IF Len(history) < MaxEntries THEN Texts ELSE {}) :
        /\ source' = inp
        /\ IF inp = EOF
           THEN pc' = "exited" /\ exit_code' = 0
           ELSE pc' = "run" /\ UNCHANGED exit_code
    /\ UNCHANGED <<nargs, mode, result, had_error, had_runtime_error, globals,
                   history, phases, printed, session>>

\* run_prompt without line 49
run_prompt_no_clear ==
    /\ pc = "returned"
    /\ mode = "repl"
    /\ history' = Append(history, [text |-> source, phases |-> phases])
    /\ pc' = "prompt"
    /\ UNCHANGED <<nargs, mode, source, result, had_error, had_runtime_error, globals,
                   stdout, exit_code, phases, printed, session>>

\* run_prompt clearing had_runtime_error as well
run_prompt_clear_both ==
    /\ pc = "returned"
    /\ mode = "repl"
    /\ had_error' = FALSE
    /\ had_runtime_error' = FALSE
    /\ history' = Append(history, [text |-> source, phases |-> phases])
    /\ pc' = "prompt"
    /\ UNCHANGED <<nargs, mode, source, result, globals,
                   stdout, exit_code, phases, printed, session>>

\* run_prompt, line 49: Globals.had_error = False, and back to the prompt
run_prompt_clear ==
    /\ pc = "returned"
    /\ mode = "repl"
    /\ had_error' = FALSE
    /\ history' = Append(history, [text |-> source, phases |-> phases])
    /\ pc' = "prompt"
    /\ UNCHANGED <<nargs, mode, source, result, had_runtime_error, globals,
                   stdout, exit_code, phases, printed, session>>

Next ==
    \/ (main /\ UNCHANGED pvars)
    \/ (run_parse /\ UNCHANGED pvars)
    \/ (run_print_ast /\ UNCHANGED pvars)
    \/ (run_resolve /\ UNCHANGED pvars)
    \/ (run_execute /\ UNCHANGED pvars)
    \/ (run_file_exit /\ UNCHANGED pvars)
    \/ (run_prompt_read /\ UNCHANGED pvars)
    \/ (run_prompt_clear /\ UNCHANGED pvars)

Spec == Init /\ [][Next]_vars

(***************************************************************************)
(* Properties                                                              *)
(***************************************************************************)
Position(p) == CHOOSE i \in 1..Len(phases) : phases[i] = p
Raised(entry, p) == \E i \in 1..Len(entry.phases) : entry.phases[i] = p

\* C1: in every run of a source the resolver is invoked only when scanning
\* and parsing recorded no error and parse() returned a statement list, and
\* the statements are executed only when no static error was recorded in
\* that run at all.
C1_ExecutionOnlyWithoutStaticError ==
    /\ InPhases("resolve") =>
          /\ ~result.none
          /\ ~\E i \in 1..Position("resolve") : phases[i] = "static_error"
    /\ InPhases("execute") => ~InPhases("static_error")
    /\ pc = "resolve" => ~had_error /\ ~result.none
    /\ pc = "execute" => ~had_error

\* a run the resolver ended with an error has returned without executing
C1_Witness ==
    /\ pc = "returned"
    /\ InPhases("resolve") /\ InPhases("static_error") /\ ~InPhases("execute")

\* C2: the exit code is 64, after the usage line alone and with nothing
\* run, for more than one argument; for a script file it is 65 when a
\* scan, parse or resolve error occurred, 70 when a runtime error occurred
\* and 0 otherwise.
C2_ExitCodes ==
    pc = "exited" =>
        /\ nargs > 1 => exit_code = 64 /\ stdout = Usage /\ phases = <<>> /\ mode = "usage"
        /\ nargs = 1 =>
            /\ mode = "file"
            /\ exit_code = IF InPhases("static_error") THEN 65
                           ELSE IF InPhases("runtime_error") THEN 70
                           ELSE 0

\* a script whose execution raised a runtime error has exited
C2_Witness == pc = "exited" /\ mode = "file" /\ InPhases("runtime_error") /\ exit_code = 70

\* C3: in the REPL had_error is false whenever an entry starts being run,
\* and an entry with no static error of its own has been resolved and
\* executed when run returns, whatever the earlier entries recorded.
C3_HadErrorCleared ==
    mode = "repl" =>
        /\ pc = "run" => ~had_error
        /\ (pc = "returned" /\ ~InPhases("static_error")) =>
                InPhases("resolve") /\ InPhases("execute")

\* an entry was executed after an earlier entry recorded a static error
C3_Witness ==
    /\ mode = "repl" /\ pc = "returned" /\ InPhases("execute")
    /\ \E i \in 1..Len(history) : Raised(history[i], "static_error")

C5_GlobalsIntact ==
    (mode = "repl" /\ pc = "execute") => globals = session

\* C6: the REPL ends on the end of input and on nothing else: a read of the
\* end of input ends it, a read of a line runs the line, and when run
\* returns, whatever the entry recorded, the loop is back at the prompt.
C6_EndsOnlyOnEOF ==
    [][ /\ (mode = "repl" /\ pc = "prompt") =>
              /\ pc' = "exited" <=> source' = EOF
              /\ pc' = "run" <=> source' # EOF
        /\ (mode = "repl" /\ pc # "prompt") => pc' # "exited"
        /\ (mode = "repl" /\ pc = "returned") => pc' = "prompt" ]_vars

\* the loop is at the prompt after a static error and a runtime error
C6_Witness ==
    /\ mode = "repl" /\ pc = "prompt"
    /\ \E i \in 1..Len(history) : Raised(history[i], "static_error")
    /\ \E i \in 1..Len(history) : Raised(history[i], "runtime_error")

\* C7: a script with no static error has written to standard output the
\* text of its own print statements and nothing else.
C7_StdoutIsProgramOutput ==
    (mode = "file" /\ pc = "exited" /\ ~InPhases("static_error")) => stdout = printed

\* C8: LispPrinter.indent is never negative and always a multiple of 4, is
\* at the return of every visit method what it was at its call, and is 0
\* when print_program has returned.
C8_IndentBalanced ==
    /\ indent >= 0
    /\ indent % 4 = 0
    /\ (pstate = "visiting" /\ Returning(Top)) => indent = Top.indent0
    /\ pstate = "done" => indent = 0

\* an if with an else branch, nested in another form, returns
C8_Witness ==
    /\ pstate = "visiting" /\ Returning(Top)
    /\ Top.node.kind = "If" /\ Len(Top.node.kids) = 3
    /\ Top.indent0 >= 4

\* C9: every child passed to print_indent starts a line of its own and is
\* indented 4 spaces deeper than the line on which its parent form opens.
C9_ChildrenIndented ==
    (pstate = "visiting" /\ Len(stack) > 1 /\ Returning(Top) /\ Top.indented) =>
        LET parent == stack[Len(stack) - 1] IN
        /\ parent.s # <<>> /\ parent.s[Len(parent.s)] = NL
        /\ indent = parent.open + 4

\* C10: a Unary is rendered as "(" lexeme " " operand ")", as a Binary is
\* rendered with its operator's lexeme.
C10_UnaryLexeme ==
    (pstate = "visiting" /\ Returning(Top)) =>
        /\ Top.node.kind = "Unary" =>
              Top.s = <<"(", Top.node.tok.lexeme, SP>>
                      \o visit(Top.node.kids[1], indent).s \o <<")">>
        /\ Top.node.kind = "Binary" =>
              Top.s = <<"(", Top.node.tok.lexeme, SP>>
                      \o visit(Top.node.kids[1], indent).s \o <<SP>>
                      \o visit(Top.node.kids[2], indent).s \o <<")">>

====
